---- MODULE Spec2Model ----
(***************************************************************************)
(* A model of the playlists application: the Playlist / PlaylistSet models *)
(* with their notification slots, the History undo stack with its undo     *)
(* button, the LocalStorage snapshot, and the Player.                      *)
(*                                                                         *)
(* JavaScript arrays are TLA+ sequences; a JavaScript index i is position  *)
(* i + 1 of the sequence.  Every handler runs to completion (the browser's *)
(* event loop is single threaded), so a handler is one action; the code of *)
(* a handler is a function from program state to program state, built     *)
(* from one operator per statement, so that a mutator called from inside   *)
(* an undo is the same code as the mutator called by the user.             *)
(***************************************************************************)
EXTENDS Integers, Sequences, FiniteSets, TLC

VARIABLES
  playlists,    \* PlaylistSet.playlists: sequence of playlist objects
  pl,           \* the Playlist objects: id -> [title, description, tracks]
  setSlots,     \* PlaylistSet notification slots: onChange, onDeletePlaylist
  slots,        \* Playlist notification slots: id -> [slot name -> callback]
  records,      \* History.records
  duringUndo,   \* History.duringUndo
  button,       \* the undo button: [disabled, innerHTML]
  storage,      \* localStorage.playlists: <<>> (unset) or <<snapshot>>
  globalTitle,  \* the implicit global `title` written by uniqueTitle
  ret,          \* what the last uniqueTitle() call returned: <<>> or <<title>>
  player,       \* the Player: [playlist, index, sound, nextSound, label]
  requests,     \* SC.stream requests in flight
  playing,      \* sound objects the audio engine is playing
  nreq,         \* number of SC.stream requests issued so far
  mainView,     \* the global mainView: [kind, playlist, id]
  nview,        \* number of view objects constructed so far
  regs,         \* observation: the callbacks assigned to each slot, in order
  events,       \* observation: the steps of the last top-level call, in order
  nlog,         \* observation: records accepted by History.log so far
  nundo,        \* observation: undo() calls made on a non-empty stack so far
  undone,       \* observation: ids of the records reverted, in order
  last,         \* observation: the last top-level call
  pre           \* observation: the models before the last call that was not an undo

vars == <<playlists, pl, setSlots, slots, records, duringUndo, button, storage,
          globalTitle, ret, player, requests, playing, nreq, mainView, nview,
          regs, events, nlog, nundo, undone, last, pre>>

----------------------------------------------------------------------------
(* Bounds of the model *)

MaxLog == 2        \* History.log accepts at most this many records in a run
MaxTracks == 3     \* addTrack is called only on playlists shorter than this
MaxReq == 4        \* SC.stream is called at most this many times in a run
MaxMoveLen == 4    \* longest track sequence moveTrack is tried on
MaxTitled == 3     \* most playlists in a small set uniqueTitle is tried on
MaxViews == 4      \* view objects are constructed at most this many times by clicks
MaxEdits == 1      \* edits made while the Player runs
MaxEditReq == 2    \* SC.stream calls made in a run in which the tracks are edited
MaxAnyCalls == 1   \* logged calls in a run with arbitrary arguments
MaxLiveTracks == 4 \* longest playlist played to its end

(* Program constants *)

TitleLimit == 1000 \* uniqueTitle tries n = 1 .. TitleLimit - 1

----------------------------------------------------------------------------
(* Values *)

PL == {1, 2}                         \* the Playlist objects
Tracks == {"t1", "t2"}               \* SoundCloud track objects
Undefined == "undefined"             \* JavaScript's undefined, as an array element
Titles == {"Playlist 1", "Mix"}      \* titles a user types
Descriptions == {"", "d"}            \* descriptions a user types

NoCb == "null"                       \* an empty notification slot
PlayerStopCb == "Player.stop"        \* bind(player, player.stop)
ViewCb(n) == "view" \o ToString(n)   \* bind(view, ...) of the n-th view object
NoView == [kind |-> "none", playlist |-> 0, id |-> 0]   \* no view constructed
SetSlotNames == {"onChange", "onDeletePlaylist"}
SlotNames == {"onTitleChange", "onDescriptionChange", "onTracksChange",
              "onAddTrack", "onDeleteTrack", "onMoveTrack"}

NoSound == [id |-> 0, track |-> "null"]   \* a null sound reference

----------------------------------------------------------------------------
(* JavaScript array operations, on sequences.  Indices are JavaScript's.   *)

\* Array.prototype.indexOf: the first index holding x, or -1.
IndexOf(seq, x) ==
  IF \E k \in 1..Len(seq) : seq[k] = x
  THEN (CHOOSE k \in 1..Len(seq) :
          seq[k] = x /\ \A m \in 1..(k - 1) : seq[m] # x) - 1
  ELSE -1

\* How splice reads its start argument: a negative start counts from the
\* end, and the result is clamped to 0 .. length.
SpliceStart(seq, start) ==
  IF start < 0
  THEN (IF Len(seq) + start < 0 THEN 0 ELSE Len(seq) + start)
  ELSE (IF start > Len(seq) THEN Len(seq) ELSE start)

\* array.splice(start, 1): removes the element at start, if there is one.
SpliceRemove(seq, start) ==
  LET k == SpliceStart(seq, start)
  IN IF k >= Len(seq) THEN seq
     ELSE [m \in 1..(Len(seq) - 1) |-> IF m <= k THEN seq[m] ELSE seq[m + 1]]

\* array.splice(start, 0, x): inserts x so that it is at index start.
SpliceInsert(seq, start, x) ==
  LET k == SpliceStart(seq, start)
  IN [m \in 1..(Len(seq) + 1) |->
        IF m <= k THEN seq[m] ELSE IF m = k + 1 THEN x ELSE seq[m - 1]]

\* array[i]: undefined outside the array.
ElementAt(seq, i) ==
  IF i >= 0 /\ i < Len(seq) THEN seq[i + 1] ELSE Undefined

----------------------------------------------------------------------------
(* The program state as one value, so that handlers compose.               *)

St == [playlists |-> playlists, pl |-> pl, setSlots |-> setSlots,
       slots |-> slots, records |-> records, duringUndo |-> duringUndo,
       button |-> button, storage |-> storage, globalTitle |-> globalTitle,
       ret |-> ret, player |-> player, requests |-> requests,
       playing |-> playing, nreq |-> nreq, mainView |-> mainView,
       nview |-> nview, regs |-> regs, events |-> events, nlog |-> nlog,
       undone |-> undone]

\* The models: the playlist sequence and every playlist's fields.
ModelOf(s) == [playlists |-> s.playlists, pl |-> s.pl]

\* One observed step of a call: what ran (the entry of the call, a callback
\* of slot `slot` of playlist p, or of the PlaylistSet when p = 0, a call of
\* History.log, a save), and the models, the History depth and the slot
\* assignments it saw.
Ev(kind, p, slot, cb, s) ==
  [ev |-> kind, p |-> p, slot |-> slot, cb |-> cb, depth |-> Len(s.records),
   model |-> ModelOf(s), regs |-> s.regs]

----------------------------------------------------------------------------
(* History *)

\* History.update: the undo button shows the description of the top record.
HistoryUpdate(s) ==
  IF Len(s.records) > 0
  THEN [s EXCEPT !.button =
          [disabled |-> FALSE,
           innerHTML |-> "Undo " \o s.records[Len(s.records)].description]]
  ELSE [s EXCEPT !.button = [disabled |-> TRUE, innerHTML |-> "Undo"]]

\* History.log(description, revert), with the duringUndo guard dropped.
HistoryLogUnguarded(s, description, revert) ==
  LET s1 == [s EXCEPT !.events = Append(@, Ev("log", 0, "", NoCb, s))]
  IN HistoryUpdate([s1 EXCEPT
       !.records = Append(@, [description |-> description, revert |-> revert,
                              id |-> s.nlog + 1, after |-> ModelOf(s)]),
       !.nlog = @ + 1])

\* History.log(description, revert).  The record's id stands for the
\* identity of the record object; `after` notes the models the logging
\* mutator leaves (no mutator changes a model after it has logged).
HistoryLog(s, description, revert) ==
  LET s1 == [s EXCEPT !.events = Append(@, Ev("log", 0, "", NoCb, s))]
  IN IF ~s.duringUndo
     THEN HistoryUpdate([s1 EXCEPT
            !.records = Append(@, [description |-> description,
                                   revert |-> revert, id |-> s.nlog + 1,
                                   after |-> ModelOf(s)]),
            !.nlog = @ + 1])
     ELSE s1

\* A revert closure, as data: the mutator it calls and the captured values.
Revert(op, p, x, i, j) == [op |-> op, p |-> p, x |-> x, i |-> i, j |-> j]

NoRevert == Revert("", 0, "", 0, 0)

----------------------------------------------------------------------------
(* Persistence *)

\* JSON.stringify with the replacer of save(): the playlists in order, each
\* with its title, description and tracks; notification slots are functions
\* or null and are left out; an undefined array element is written as null.
Snapshot(s) ==
  [k \in 1..Len(s.playlists) |->
     LET q == s.pl[s.playlists[k]]
     IN [title |-> q.title, description |-> q.description,
         tracks |-> [m \in 1..Len(q.tracks) |->
                       IF q.tracks[m] = Undefined THEN "null" ELSE q.tracks[m]]]]

\* PlaylistSet.prototype.save
Save(s) ==
  [s EXCEPT !.storage = <<Snapshot(s)>>,
            !.events = Append(@, Ev("save", 0, "", NoCb, s))]

----------------------------------------------------------------------------
(* Player.stop, which is also the onTracksChange callback *)

\* Player.prototype.stop
PlayerStop(s) ==
  LET s1 == [s EXCEPT !.player.label = "Play"]
      s2 == IF s1.player.sound # NoSound
            THEN [s1 EXCEPT !.playing = @ \ {s1.player.sound},
                            !.player.sound = NoSound,
                            !.player.nextSound = NoSound]
            ELSE s1
  IN [s2 EXCEPT !.player.index = -1]

----------------------------------------------------------------------------
(* Notification slots and the views that fill them *)

\* A slot assignment that leaves a callback the slot already holds in place
\* when given another callback.
SetSlotKeepsFirst(s, p, name, cb) ==
  LET held == IF p = 0 THEN s.setSlots[name] ELSE s.slots[p][name]
      kept == IF held # NoCb /\ cb # NoCb THEN held ELSE cb
      s1 == IF p = 0 THEN [s EXCEPT !.setSlots[name] = kept]
            ELSE [s EXCEPT !.slots[p][name] = kept]
  IN [s1 EXCEPT !.regs[p][name] = Append(@, cb)]

\* `model.slot = cb` for a slot of playlist p, or of the PlaylistSet when
\* p = 0; cb is NoCb for `= null`.
SetSlot(s, p, name, cb) ==
  LET s1 == IF p = 0 THEN [s EXCEPT !.setSlots[name] = cb]
            ELSE [s EXCEPT !.slots[p][name] = cb]
  IN [s1 EXCEPT !.regs[p][name] = Append(@, cb)]

\* new Player(playlist)
PlayerNew(s, playlist) ==
  LET s1 == [s EXCEPT !.player = [playlist |-> playlist, index |-> -1,
                                  sound |-> NoSound, nextSound |-> NoSound,
                                  label |-> s.player.label]]
  IN SetSlot(PlayerStop(s1), playlist, "onTracksChange", PlayerStopCb)

\* Player.prototype.remove
PlayerRemove(s) ==
  SetSlot(PlayerStop(s), s.player.playlist, "onTracksChange", NoCb)

\* new PlaylistSetView(myPlaylists), assigned to mainView
PlaylistSetViewNew(s) ==
  LET n == s.nview + 1
      s1 == [s EXCEPT !.nview = n,
                      !.mainView = [kind |-> "set", playlist |-> 0, id |-> n]]
  IN SetSlot(s1, 0, "onChange", ViewCb(n))

\* new PlaylistView(playlist), assigned to mainView.  (Its assignment to
\* playlist.onChange stores undefined in a property no mutator reads.)
PlaylistViewNew(s, p) ==
  LET n == s.nview + 1
      s1 == [s EXCEPT !.nview = n,
                      !.mainView = [kind |-> "playlist", playlist |-> p,
                                    id |-> n]]
      s2 == SetSlot(s1, p, "onAddTrack", ViewCb(n))
      s3 == SetSlot(s2, p, "onDeleteTrack", ViewCb(n))
      s4 == SetSlot(s3, p, "onMoveTrack", ViewCb(n))
      s5 == SetSlot(s4, 0, "onDeletePlaylist", ViewCb(n))
      s6 == PlayerNew(s5, p)
      s7 == SetSlot(s6, p, "onTitleChange", ViewCb(n))
  IN SetSlot(s7, p, "onDescriptionChange", ViewCb(n))

\* PlaylistView.prototype.remove
PlaylistViewRemove(s) ==
  LET p == s.mainView.playlist
      s1 == PlayerRemove(s)
      s2 == SetSlot(s1, p, "onAddTrack", NoCb)
      s3 == SetSlot(s2, p, "onDeleteTrack", NoCb)
      s4 == SetSlot(s3, p, "onMoveTrack", NoCb)
  IN SetSlot(s4, 0, "onDeletePlaylist", NoCb)

\* What a registered callback does to the program state.  The Player's
\* callback stops it; the PlaylistView's onDeletePlaylist callback switches
\* back to the view of all playlists when its playlist is the deleted one;
\* the other view callbacks only redraw the page.
Invoke(cb, name, arg, s) ==
  IF cb = PlayerStopCb THEN PlayerStop(s)
  ELSE IF /\ name = "onDeletePlaylist"
          /\ s.mainView.kind = "playlist"
          /\ arg = s.mainView.playlist
       THEN PlaylistSetViewNew(PlaylistViewRemove(s))
       ELSE s

\* `slot && slot(arg)` for a slot of playlist p, or of the PlaylistSet when
\* p = 0: the callback, if there is one, is called once.
FireWith(s, p, name, arg) ==
  LET cb == IF p = 0 THEN s.setSlots[name] ELSE s.slots[p][name]
  IN IF cb = NoCb THEN s
     ELSE Invoke(cb, name, arg,
                 [s EXCEPT !.events = Append(@, Ev("notify", p, name, cb, s))])

Fire(s, p, name) == FireWith(s, p, name, 0)

----------------------------------------------------------------------------
(* Playlist mutators *)

\* setTitle logging a revert to the new title instead of the old one.
SetTitleRevertsToNewTitle(s, p, title) ==
  LET s1 == [s EXCEPT !.pl[p].title = title]
      s2 == Fire(s1, p, "onTitleChange")
      s3 == HistoryLog(s2, "Set Description",
                       Revert("setTitle", p, title, 0, 0))
  IN Save(s3)

\* Playlist.prototype.setTitle
SetTitle(s, p, title) ==
  LET oldTitle == s.pl[p].title
      s1 == [s EXCEPT !.pl[p].title = title]
      s2 == Fire(s1, p, "onTitleChange")
      s3 == HistoryLog(s2, "Set Description",
                       Revert("setTitle", p, oldTitle, 0, 0))
  IN Save(s3)

\* Playlist.prototype.setDescription
SetDescription(s, p, description) ==
  LET oldDescription == s.pl[p].description
      s1 == [s EXCEPT !.pl[p].description = description]
      s2 == Fire(s1, p, "onDescriptionChange")
      s3 == HistoryLog(s2, "Set Description",
                       Revert("setDescription", p, oldDescription, 0, 0))
  IN Save(s3)

\* addTrack firing onTracksChange after the track is appended.
AddTrackThenTracksChange(s, p, track) ==
  LET s1 == [s EXCEPT !.pl[p].tracks = Append(@, track)]
      s2 == Fire(s1, p, "onTracksChange")
      s3 == Fire(s2, p, "onAddTrack")
      s4 == HistoryLog(s3, "Add Track", Revert("deleteTrack", p, track, 0, 0))
  IN Save(s4)

\* Playlist.prototype.addTrack
AddTrack(s, p, track) ==
  LET s1 == Fire(s, p, "onTracksChange")
      s2 == [s1 EXCEPT !.pl[p].tracks = Append(@, track)]
      s3 == Fire(s2, p, "onAddTrack")
      s4 == HistoryLog(s3, "Add Track", Revert("deleteTrack", p, track, 0, 0))
  IN Save(s4)

\* Array.prototype.lastIndexOf: the last index holding x, or -1.
LastIndexOf(seq, x) ==
  IF \E k \in 1..Len(seq) : seq[k] = x
  THEN (CHOOSE k \in 1..Len(seq) :
          seq[k] = x /\ \A m \in (k + 1)..Len(seq) : seq[m] # x) - 1
  ELSE -1

\* deleteTrack looking the track up with lastIndexOf instead of indexOf.
DeleteTrackLastMatch(s, p, track) ==
  LET s1 == Fire(s, p, "onTracksChange")
      index == LastIndexOf(s1.pl[p].tracks, track)
      s2 == [s1 EXCEPT !.pl[p].tracks = SpliceRemove(@, index)]
      s3 == Fire(s2, p, "onDeleteTrack")
      s4 == HistoryLog(s3, "Delete Track", Revert("addTrack", p, track, 0, 0))
  IN Save(s4)

\* Playlist.prototype.deleteTrack
DeleteTrack(s, p, track) ==
  LET s1 == Fire(s, p, "onTracksChange")
      index == IndexOf(s1.pl[p].tracks, track)
      s2 == [s1 EXCEPT !.pl[p].tracks = SpliceRemove(@, index)]
      s3 == Fire(s2, p, "onDeleteTrack")
      s4 == HistoryLog(s3, "Delete Track", Revert("addTrack", p, track, 0, 0))
  IN Save(s4)

\* moveTrack correcting the target index for the removed element, as code
\* that inserts before the element at `to` would.
MoveTrackShiftedTarget(s, p, from, to) ==
  LET s1 == Fire(s, p, "onTracksChange")
      track == ElementAt(s1.pl[p].tracks, from)
      s2 == [s1 EXCEPT !.pl[p].tracks = SpliceRemove(@, from)]
      s3 == [s2 EXCEPT !.pl[p].tracks =
               SpliceInsert(@, IF from < to THEN to - 1 ELSE to, track)]
      s4 == Fire(s3, p, "onMoveTrack")
      s5 == HistoryLog(s4, "Move Track", Revert("moveTrack", p, "", to, from))
  IN IF from = to THEN s1 ELSE Save(s5)

\* moveTrack returning after History.log, without myPlaylists.save().
MoveTrackUnsaved(s, p, from, to) ==
  LET s1 == Fire(s, p, "onTracksChange")
      track == ElementAt(s1.pl[p].tracks, from)
      s2 == [s1 EXCEPT !.pl[p].tracks = SpliceRemove(@, from)]
      s3 == [s2 EXCEPT !.pl[p].tracks = SpliceInsert(@, to, track)]
      s4 == Fire(s3, p, "onMoveTrack")
      s5 == HistoryLog(s4, "Move Track", Revert("moveTrack", p, "", to, from))
  IN IF from = to THEN s1 ELSE s5

\* Playlist.prototype.moveTrack
MoveTrack(s, p, from, to) ==
  LET s1 == Fire(s, p, "onTracksChange")
      track == ElementAt(s1.pl[p].tracks, from)
      s2 == [s1 EXCEPT !.pl[p].tracks = SpliceRemove(@, from)]
      s3 == [s2 EXCEPT !.pl[p].tracks = SpliceInsert(@, to, track)]
      s4 == Fire(s3, p, "onMoveTrack")
      s5 == HistoryLog(s4, "Move Track", Revert("moveTrack", p, "", to, from))
  IN IF from = to THEN s1 ELSE Save(s5)

----------------------------------------------------------------------------
(* PlaylistSet mutators *)

\* PlaylistSet.prototype.addPlaylist
AddPlaylist(s, p) ==
  LET s1 == [s EXCEPT !.playlists = Append(@, p)]
      s2 == Fire(s1, 0, "onChange")
      s3 == HistoryLog(s2, "Add Playlist",
                       Revert("deletePlaylist", p, "", 0, 0))
  IN Save(s3)

\* PlaylistSet.prototype.deletePlaylist
DeletePlaylist(s, p) ==
  LET index == IndexOf(s.playlists, p)
      s1 == [s EXCEPT !.playlists = SpliceRemove(@, index)]
      s2 == Fire(s1, 0, "onChange")
      s3 == FireWith(s2, 0, "onDeletePlaylist", p)
      s4 == HistoryLog(s3, "Delete Playlist",
                       Revert("addPlaylist", p, "", 0, 0))
  IN Save(s4)

----------------------------------------------------------------------------
(* History.undo *)

\* Calling a record's revert closure.
CallRevert(s, r) ==
  CASE r.op = "setTitle" -> SetTitle(s, r.p, r.x)
    [] r.op = "setDescription" -> SetDescription(s, r.p, r.x)
    [] r.op = "addTrack" -> AddTrack(s, r.p, r.x)
    [] r.op = "deleteTrack" -> DeleteTrack(s, r.p, r.x)
    [] r.op = "moveTrack" -> MoveTrack(s, r.p, r.i, r.j)
    [] r.op = "addPlaylist" -> AddPlaylist(s, r.p)
    [] r.op = "deletePlaylist" -> DeletePlaylist(s, r.p)

\* undo() taking the oldest record (shift) instead of the newest (pop).
HistoryUndoOldest(s) ==
  IF Len(s.records) = 0 THEN s
  ELSE LET undo == s.records[1]
           s1 == [s EXCEPT !.records = SubSeq(@, 2, Len(@))]
           s2 == [s1 EXCEPT !.duringUndo = TRUE]
           s3 == CallRevert([s2 EXCEPT !.undone = Append(@, undo.id)],
                            undo.revert)
           s4 == [s3 EXCEPT !.duringUndo = FALSE]
       IN HistoryUpdate(s4)

\* undo() reading the newest record without removing it from the stack.
HistoryUndoKeepsRecord(s) ==
  IF Len(s.records) = 0 THEN s
  ELSE LET undo == s.records[Len(s.records)]
           s2 == [s EXCEPT !.duringUndo = TRUE]
           s3 == CallRevert([s2 EXCEPT !.undone = Append(@, undo.id)],
                            undo.revert)
           s4 == [s3 EXCEPT !.duringUndo = FALSE]
       IN HistoryUpdate(s4)

\* undo() without the History.update() at its end.
HistoryUndoWithoutUpdate(s) ==
  IF Len(s.records) = 0 THEN s
  ELSE LET undo == s.records[Len(s.records)]
           s1 == [s EXCEPT !.records = SubSeq(@, 1, Len(@) - 1)]
           s2 == [s1 EXCEPT !.duringUndo = TRUE]
           s3 == CallRevert([s2 EXCEPT !.undone = Append(@, undo.id)],
                            undo.revert)
       IN [s3 EXCEPT !.duringUndo = FALSE]

\* History.undo
HistoryUndo(s) ==
  IF Len(s.records) = 0 THEN s
  ELSE LET undo == s.records[Len(s.records)]
           s1 == [s EXCEPT !.records = SubSeq(@, 1, Len(@) - 1)]
           s2 == [s1 EXCEPT !.duringUndo = TRUE]
           s3 == CallRevert([s2 EXCEPT !.undone = Append(@, undo.id)],
                            undo.revert)
           s4 == [s3 EXCEPT !.duringUndo = FALSE]
       IN HistoryUpdate(s4)

----------------------------------------------------------------------------
(* Player *)

\* The tracks of the playlist the Player plays.
PlayerTracks(s) == s.pl[s.player.playlist].tracks

\* SC.stream(track.id, callback): a request goes out; kind says which of
\* the Player's two callbacks will take the sound, and `during` notes the
\* sound whose playSound call asked for a preload.
Stream(s, track, kind) ==
  [s EXCEPT !.nreq = @ + 1,
            !.requests = @ \cup {[id |-> s.nreq + 1, track |-> track,
                                  kind |-> kind,
                                  during |-> IF kind = "preload"
                                             THEN s.player.sound.id
                                             ELSE 0]}]

\* playSound preloading the track at the index itself (index for index + 1).
PlaySoundPreloadsCurrent(s, sound) ==
  LET s1 == [s EXCEPT !.player.sound = sound,
                      !.playing = @ \cup {sound}]
      s2 == [s1 EXCEPT !.player.nextSound = NoSound]
  IN IF s2.player.index + 1 < Len(PlayerTracks(s2))
     THEN Stream(s2, ElementAt(PlayerTracks(s2), s2.player.index), "preload")
     ELSE s2

\* Player.prototype.playSound
PlaySound(s, sound) ==
  LET s1 == [s EXCEPT !.player.sound = sound,
                      !.playing = @ \cup {sound}]
      s2 == [s1 EXCEPT !.player.nextSound = NoSound]
  IN IF s2.player.index + 1 < Len(PlayerTracks(s2))
     THEN Stream(s2, ElementAt(PlayerTracks(s2), s2.player.index + 1),
                 "preload")
     ELSE s2

\* playNextTrack stopping only when the index is beyond the length (> for >=).
PlayNextTrackBeyondLength(s) ==
  LET s1 == [s EXCEPT !.player.index = @ + 1]
  IN IF s1.player.index > Len(PlayerTracks(s1))
     THEN PlayerStop([s1 EXCEPT !.player.sound = NoSound])
     ELSE IF s1.player.nextSound # NoSound
          THEN PlaySound([s1 EXCEPT !.player.nextSound = NoSound],
                         s1.player.nextSound)
          ELSE Stream(s1, ElementAt(PlayerTracks(s1), s1.player.index), "play")

\* Player.prototype.playNextTrack
PlayNextTrack(s) ==
  LET s1 == [s EXCEPT !.player.index = @ + 1]
  IN IF s1.player.index >= Len(PlayerTracks(s1))
     THEN PlayerStop([s1 EXCEPT !.player.sound = NoSound])
     ELSE IF s1.player.nextSound # NoSound
          THEN PlaySound([s1 EXCEPT !.player.nextSound = NoSound],
                         s1.player.nextSound)
          ELSE Stream(s1, ElementAt(PlayerTracks(s1), s1.player.index), "play")

\* Player.prototype.play
PlayerPlay(s) ==
  PlayNextTrack([s EXCEPT !.player.label = "Stop",
                          !.player.index = -1,
                          !.player.nextSound = NoSound])

\* The callback SC.stream was given, called with the sound of request r.
StreamCallback(s, r) ==
  LET sound == [id |-> r.id, track |-> r.track]
      s1 == [s EXCEPT !.requests = @ \ {r}]
  IN IF r.kind = "play" THEN PlaySound(s1, sound)
     ELSE [s1 EXCEPT !.player.nextSound = sound]

\* The onfinish callback of a playing sound.
OnFinish(s, sound) == PlayNextTrack([s EXCEPT !.playing = @ \ {sound}])

----------------------------------------------------------------------------
(* Top-level calls *)

\* The program state a handler leaves becomes the next state.
Commit(s) ==
  /\ playlists' = s.playlists
  /\ pl' = s.pl
  /\ setSlots' = s.setSlots
  /\ slots' = s.slots
  /\ records' = s.records
  /\ duringUndo' = s.duringUndo
  /\ button' = s.button
  /\ storage' = s.storage
  /\ globalTitle' = s.globalTitle
  /\ ret' = s.ret
  /\ player' = s.player
  /\ requests' = s.requests
  /\ playing' = s.playing
  /\ nreq' = s.nreq
  /\ mainView' = s.mainView
  /\ nview' = s.nview
  /\ regs' = s.regs
  /\ events' = s.events
  /\ nlog' = s.nlog
  /\ undone' = s.undone

\* The state a top-level call starts from; the observation of the call
\* begins with what the call found.
Start == [St EXCEPT !.events = <<Ev("call", 0, "", NoCb, St)>>]

\* The description of a top-level call.
CallOf(kind, p, x, i, j) ==
  [kind |-> kind, p |-> p, x |-> x, i |-> i, j |-> j,
   depth |-> Len(records), of |-> "", rid |-> 0, rev |-> NoRevert]

\* A mutator called by the user (or a test), with the observation of it.
Mutator(s, call) ==
  /\ Commit(s)
  /\ last' = call
  /\ pre' = ModelOf(St)
  /\ nundo' = nundo

InSet(p) == \E k \in 1..Len(playlists) : playlists[k] = p

CallSetTitle(p, title) ==
  /\ nlog < MaxLog /\ InSet(p)
  /\ Mutator(SetTitle(Start, p, title), CallOf("setTitle", p, title, 0, 0))

CallSetDescription(p, description) ==
  /\ nlog < MaxLog /\ InSet(p)
  /\ Mutator(SetDescription(Start, p, description),
             CallOf("setDescription", p, description, 0, 0))

CallAddTrack(p, track) ==
  /\ nlog < MaxLog /\ InSet(p)
  /\ Len(pl[p].tracks) < MaxTracks
  /\ Mutator(AddTrack(Start, p, track), CallOf("addTrack", p, track, 0, 0))

\* deleteTrack of a track the playlist holds
CallDeleteTrack(p, track) ==
  /\ nlog < MaxLog /\ InSet(p)
  /\ IndexOf(pl[p].tracks, track) >= 0
  /\ Mutator(DeleteTrack(Start, p, track),
             CallOf("deleteTrack", p, track, 0, 0))

\* moveTrack with both indices inside the track sequence
CallMoveTrack(p, from, to) ==
  /\ nlog < MaxLog /\ InSet(p)
  /\ from < Len(pl[p].tracks) /\ to < Len(pl[p].tracks)
  /\ Mutator(MoveTrack(Start, p, from, to),
             CallOf("moveTrack", p, "", from, to))

\* addPlaylist of a playlist that is not in the set
CallAddPlaylist(p) ==
  /\ nlog < MaxLog /\ ~InSet(p)
  /\ Mutator(AddPlaylist(Start, p), CallOf("addPlaylist", p, "", 0, 0))

\* deletePlaylist of a playlist of the set
CallDeletePlaylist(p) ==
  /\ nlog < MaxLog /\ InSet(p)
  /\ Mutator(DeletePlaylist(Start, p), CallOf("deletePlaylist", p, "", 0, 0))

\* A click on the undo button, or a call of History.undo().
CallUndo ==
  /\ Commit(HistoryUndo(Start))
  /\ last' = [kind |-> "undo", p |-> last.p, x |-> last.x, i |-> last.i,
              j |-> last.j, depth |-> Len(records), of |-> last.kind,
              rid |-> IF Len(records) = 0 THEN 0 ELSE records[Len(records)].id,
              rev |-> IF Len(records) = 0 THEN NoRevert
                      ELSE records[Len(records)].revert]
  /\ pre' = IF last.kind = "undo" THEN ModelOf(St) ELSE pre
  /\ nundo' = IF Len(records) = 0 THEN nundo ELSE nundo + 1

----------------------------------------------------------------------------
(* The models with their History: the specification of the undo claims     *)

NoSlots == [n \in SlotNames |-> NoCb]

\* The slots a PlaylistView of a playlist installs, with its TitleView,
\* DescriptionView and Player.
ViewSlots(v) == [n \in SlotNames |->
                   IF n = "onTracksChange" THEN PlayerStopCb ELSE v]

\* The slots of the PlaylistSet while the second view object, a
\* PlaylistView, is shown: onChange is still that of the first, the
\* PlaylistSetView the page was loaded with.
SetSlotsInPlaylistView ==
  [n \in SetSlotNames |-> IF n = "onChange" THEN ViewCb(1) ELSE ViewCb(2)]

NewPlayer == [playlist |-> 1, index |-> -1, sound |-> NoSound,
              nextSound |-> NoSound, label |-> "Play"]

InitTracks == {<<>>, <<"t1", "t2">>, <<"t1", "t2", "t1">>}

\* What every specification starts with: an empty History, an idle Player.
InitRest ==
  /\ records = <<>>
  /\ duringUndo = FALSE
  /\ button = [disabled |-> TRUE, innerHTML |-> "Undo"]
  /\ storage = <<Snapshot([playlists |-> playlists, pl |-> pl])>>
  /\ globalTitle = Undefined
  /\ ret = <<>>
  /\ player = NewPlayer
  /\ requests = {}
  /\ playing = {}
  /\ nreq = 0
  /\ regs = [q \in DOMAIN slots \cup {0} |->
               IF q = 0
               THEN [n \in SetSlotNames |->
                       IF setSlots[n] = NoCb THEN <<>> ELSE <<setSlots[n]>>]
               ELSE [n \in SlotNames |->
                       IF slots[q][n] = NoCb THEN <<>> ELSE <<slots[q][n]>>]]
  /\ events = <<>>
  /\ nlog = 0
  /\ nundo = 0
  /\ undone = <<>>
  /\ last = [kind |-> "init", p |-> 0, x |-> "", i |-> 0, j |-> 0,
             depth |-> 0, of |-> "", rid |-> 0, rev |-> NoRevert]
  /\ pre = [playlists |-> playlists, pl |-> pl]

Init ==
  /\ playlists = <<1>>
  /\ \E tr \in InitTracks :
       pl = [p \in PL |->
               [title |-> IF p = 1 THEN "Playlist 1" ELSE "Playlist 2",
                description |-> "",
                tracks |-> IF p = 1 THEN tr ELSE <<>>]]
  /\ \E attached \in BOOLEAN :
       /\ slots = [p \in PL |-> IF attached /\ p = 1 THEN ViewSlots(ViewCb(2))
                                ELSE NoSlots]
       /\ setSlots = IF attached THEN SetSlotsInPlaylistView
                     ELSE [n \in SetSlotNames |-> NoCb]
       /\ mainView = IF attached
                     THEN [kind |-> "playlist", playlist |-> 1, id |-> 2]
                     ELSE NoView
       /\ nview = IF attached THEN 2 ELSE 0
  /\ InitRest

Next ==
  \/ \E p \in PL, title \in Titles : CallSetTitle(p, title)
  \/ \E p \in PL, description \in Descriptions :
       CallSetDescription(p, description)
  \/ \E p \in PL, track \in Tracks : CallAddTrack(p, track)
  \/ \E p \in PL, track \in Tracks : CallDeleteTrack(p, track)
  \/ \E p \in PL, from \in 0..(MaxTracks - 1), to \in 0..(MaxTracks - 1) :
       CallMoveTrack(p, from, to)
  \/ \E p \in PL : CallAddPlaylist(p)
  \/ \E p \in PL : CallDeletePlaylist(p)
  \/ CallUndo

Spec == Init /\ [][Next]_vars

----------------------------------------------------------------------------
(* Claims about undo *)

Model == ModelOf(St)

\* The last call was an undo() issued immediately after a call of `kind`.
UndoRightAfter(kind) == last.kind = "undo" /\ last.of = kind

Occurs(seq, x) == \E k \in 1..Len(seq) : seq[k] = x

\* C1: one undo() issued immediately after setTitle, setDescription,
\* addTrack, moveTrack (indices in range) or addPlaylist restores every
\* playlist's title, description and track sequence and the playlist
\* sequence to their values before the call, also for addTrack of a track
\* object the playlist already holds and for moveTrack(i, i).
C1_UndoRestoresPreCallState ==
  (\E kind \in {"setTitle", "setDescription", "addTrack", "moveTrack",
                "addPlaylist"} : UndoRightAfter(kind))
    => Model = pre

\* The part of C1 outside its two failing cases: the track added was not in
\* the playlist, and the move was not moveTrack(i, i).
C1_UndoRestoresOutsideFailingCases ==
  (\/ UndoRightAfter("setTitle")
   \/ UndoRightAfter("setDescription")
   \/ UndoRightAfter("addPlaylist")
   \/ UndoRightAfter("addTrack") /\ ~Occurs(pre.pl[last.p].tracks, last.x)
   \/ UndoRightAfter("moveTrack") /\ last.i # last.j)
    => Model = pre

\* seq without its first element equal to x.
WithoutFirst(seq, x) ==
  LET k == CHOOSE m \in 1..Len(seq) :
             seq[m] = x /\ \A n \in 1..(m - 1) : seq[n] # x
  IN SubSeq(seq, 1, k - 1) \o SubSeq(seq, k + 1, Len(seq))

\* C2: one undo() immediately after deleteTrack(t) with t present, or after
\* deletePlaylist(p) with p present, re-inserts the deleted entity as the
\* last element of its sequence; the other elements keep their order, and
\* nothing else (titles, descriptions, other sequences) changes.
C2_UndoOfDeleteAppends ==
  /\ UndoRightAfter("deleteTrack") =>
       /\ pl[last.p].tracks =
            Append(WithoutFirst(pre.pl[last.p].tracks, last.x), last.x)
       /\ \A q \in PL :
            /\ pl[q].title = pre.pl[q].title
            /\ pl[q].description = pre.pl[q].description
            /\ q # last.p => pl[q].tracks = pre.pl[q].tracks
       /\ playlists = pre.playlists
  /\ UndoRightAfter("deletePlaylist") =>
       /\ playlists = Append(WithoutFirst(pre.playlists, last.p), last.p)
       /\ pl = pre.pl

\* A track deleted from the front of a three-track playlist with a duplicate
\* came back at the end.
C2_Witness ==
  /\ UndoRightAfter("deleteTrack")
  /\ pre.pl[last.p].tracks = <<"t1", "t2", "t1">>
  /\ last.x = "t1"
  /\ pl[last.p].tracks = <<"t2", "t1", "t1">>

\* The same for a playlist deleted from the front of a two-playlist set.
C2_WitnessPlaylist ==
  /\ UndoRightAfter("deletePlaylist")
  /\ Len(pre.playlists) = 2 /\ pre.playlists[1] = last.p
  /\ playlists[2] = last.p

----------------------------------------------------------------------------
(* Claims about the History stack *)

RecordIds == {records[k].id : k \in 1..Len(records)}
UndoneIds == {undone[k] : k \in 1..Len(undone)}

\* C3: undo() reverts the most recently logged record not yet undone: the
\* stack holds, oldest first, exactly the logged records that were not
\* reverted; the record an undo() reverts is newer than every record left;
\* no record is reverted twice and no reverted record is on the stack again.
C3_UndoIsLifo ==
  /\ \A k \in 1..Len(records), m \in 1..Len(records) :
       k < m => records[k].id < records[m].id
  /\ RecordIds \cup UndoneIds = 1..nlog
  /\ RecordIds \cap UndoneIds = {}
  /\ \A k \in 1..Len(undone), m \in 1..Len(undone) :
       k # m => undone[k] # undone[m]
  /\ (last.kind = "undo" /\ last.rid # 0) =>
       /\ undone[Len(undone)] = last.rid
       /\ \A id \in RecordIds : id < last.rid

\* Two records were logged and both were reverted, the newer one first.
C3_Witness == last.kind = "undo" /\ undone = <<2, 1>>

\* C4: while undo() runs a revert no record is appended: every step of the
\* call (the mutator's callbacks, its History.log, its save) sees the stack
\* one shorter than before the call, and so it is when undo() returns.
C4_NoLogDuringUndo ==
  (last.kind = "undo" /\ last.depth > 0) =>
    /\ Len(records) = last.depth - 1
    /\ \A k \in 2..Len(events) : events[k].depth = last.depth - 1

\* An undo() whose revert called History.log, followed by save.
C4_Witness ==
  /\ last.kind = "undo" /\ last.depth = 2
  /\ \E k \in 1..Len(events) :
       /\ events[k].ev = "log"
       /\ \E m \in (k + 1)..Len(events) : events[m].ev = "save"

\* C5: the stack depth is the number of records log accepted minus the
\* number of undo() calls made on a non-empty stack, and undo() on an empty
\* stack changes neither the stack, nor the flag, nor any model.
C5_DepthIsLogsMinusUndos ==
  /\ [](Len(records) = nlog - nundo)
  /\ [][(last'.kind = "undo" /\ Len(records) = 0) =>
          /\ records' = <<>>
          /\ duringUndo' = duringUndo
          /\ playlists' = playlists /\ pl' = pl
          /\ nundo' = nundo /\ undone' = undone /\ Len(events') = 1]_vars

\* undo() was called on a stack that earlier undos had emptied.
C5_Witness ==
  /\ last.kind = "undo" /\ last.depth = 0 /\ last.of = "undo"
  /\ nlog = 2 /\ nundo = 2

----------------------------------------------------------------------------
(* Claims about the order of the steps of a mutator *)

MutatorKinds == {"setTitle", "setDescription", "addTrack", "deleteTrack",
                 "moveTrack", "addPlaylist", "deletePlaylist"}

\* The last top-level call ran a mutator: it was one, or it was an undo()
\* that called the revert of a record.
RanMutator ==
  last.kind \in MutatorKinds \/ (last.kind = "undo" /\ last.rid # 0)

\* The mutator the last call ran, with its arguments.
Ran ==
  IF last.kind = "undo" THEN last.rev
  ELSE [op |-> last.kind, p |-> last.p, x |-> last.x, i |-> last.i,
        j |-> last.j]

\* The History depth when the mutator was entered.
DepthAtEntry == IF last.kind = "undo" THEN last.depth - 1 ELSE last.depth

ChangesTracks(op) == op \in {"addTrack", "deleteTrack", "moveTrack"}

\* The slots a mutator fires after its mutation.
PostSlots(op) ==
  CASE op = "setTitle" -> {"onTitleChange"}
    [] op = "setDescription" -> {"onDescriptionChange"}
    [] op = "addTrack" -> {"onAddTrack"}
    [] op = "deleteTrack" -> {"onDeleteTrack"}
    [] op = "moveTrack" -> {"onMoveTrack"}
    [] op = "addPlaylist" -> {"onChange"}
    [] op = "deletePlaylist" -> {"onChange", "onDeletePlaylist"}

\* What a slot holds after the assignments regs: the last one.
Held(assigned) ==
  IF Len(assigned) = 0 THEN NoCb ELSE assigned[Len(assigned)]

\* What the slot `name` of the model that mutator op of playlist p fires
\* held when the last call was entered.
SlotOf(op, p, name) ==
  Held(events[1].regs[IF op \in {"addPlaylist", "deletePlaylist"} THEN 0
                      ELSE p][name])

\* The observed steps of the last call are, in this order: the
\* onTracksChange callback (only for a mutator of a track sequence, only if
\* set) seeing the models as they were at entry; one callback per set
\* post-mutation slot, seeing the models as the call left them and the
\* History depth of the entry; History.log, at that depth, with the models
\* as the call left them; the save of the set.
StepsInOrder ==
  LET n == Len(events)
      r == Ran
      tc == ChangesTracks(r.op) /\ SlotOf(r.op, r.p, "onTracksChange") # NoCb
      first == IF tc THEN 3 ELSE 2
  IN /\ n >= first + 1
     /\ events[n].ev = "save" /\ events[n].model = Model
     /\ events[n - 1].ev = "log" /\ events[n - 1].model = Model
     /\ events[n - 1].depth = DepthAtEntry
     /\ tc => /\ events[2].ev = "notify"
              /\ events[2].slot = "onTracksChange"
              /\ events[2].p = r.p
              /\ events[2].model = events[1].model
     /\ \A k \in first..(n - 2) :
          /\ events[k].ev = "notify"
          /\ events[k].slot \in PostSlots(r.op)
          /\ events[k].model = Model
          /\ events[k].depth = DepthAtEntry
     /\ \A name \in PostSlots(r.op) :
          SlotOf(r.op, r.p, name) # NoCb =>
            \E k \in first..(n - 2) :
              /\ events[k].slot = name
              /\ events[k].cb = SlotOf(r.op, r.p, name)
              /\ \A m \in first..(n - 2) : events[m].slot = name => m = k

\* C8: within each mutator call the model is changed, then the post-mutation
\* callback (if set) runs and sees the new state with the History depth
\* still at its pre-call value, then History.log is called, then the set is
\* saved; the onTracksChange callback of addTrack, deleteTrack and moveTrack
\* runs before the track sequence is modified and sees the old sequence.
C8_MutatorStepsInOrder == RanMutator => StepsInOrder

\* The same order, for every mutator call but moveTrack(i, i).
C8_StepsInOrderUnlessEqualMove ==
  (RanMutator /\ ~(Ran.op = "moveTrack" /\ Ran.i = Ran.j)) => StepsInOrder

\* A call with callbacks set went through all the steps: deleteTrack fired
\* onTracksChange, then onDeleteTrack, then logged and saved.
C8_Witness ==
  /\ last.kind = "deleteTrack"
  /\ Len(events) = 5
  /\ events[2].slot = "onTracksChange"
  /\ events[2].model # Model
  /\ events[3].slot = "onDeleteTrack"
  /\ events[3].model = Model
  /\ StepsInOrder

\* moveTrack(i, i) with callbacks set: only onTracksChange ran.
C8_WitnessEqualMove ==
  /\ last.kind = "moveTrack" /\ last.i = last.j
  /\ SlotOf("moveTrack", last.p, "onMoveTrack") # NoCb
  /\ Len(events) = 2

----------------------------------------------------------------------------
(* moveTrack on every track sequence of up to MaxMoveLen tracks *)

MoveTracks == {"A", "B", "C", "D"}

\* All sequences over S of length at most n.
SeqsUpTo(S, n) == UNION {[1..k -> S] : k \in 0..n}

InitMove ==
  /\ playlists = <<1>>
  /\ \E tr \in SeqsUpTo(MoveTracks, MaxMoveLen) :
       pl = [p \in PL |->
               [title |-> IF p = 1 THEN "Playlist 1" ELSE "Playlist 2",
                description |-> "",
                tracks |-> IF p = 1 THEN tr ELSE <<>>]]
  /\ slots = [p \in PL |-> NoSlots]
  /\ setSlots = [n \in SetSlotNames |-> NoCb]
  /\ mainView = NoView
  /\ nview = 0
  /\ InitRest

\* One moveTrack call on the drawn sequence, and then undo().
NextMove ==
  \/ \E from \in 0..(MaxMoveLen - 1), to \in 0..(MaxMoveLen - 1) :
       nlog = 0 /\ CallMoveTrack(1, from, to)
  \/ CallUndo

SpecMove == InitMove /\ [][NextMove]_vars

\* seq without the element at position k (positions from 1).
WithoutPosition(seq, k) == SubSeq(seq, 1, k - 1) \o SubSeq(seq, k + 1, Len(seq))

\* C6: for 0 <= from, to < n and from # to, moveTrack(from, to) puts the
\* element that was at index from at index to and keeps the order of the
\* others ([A,B,C,D] with (0,2) gives [B,C,A,D]); moveTrack(to, from)
\* applied next, which is what undo() calls, gives the original back.
C6_MoveTrackMovesAndInverts ==
  /\ (last.kind = "moveTrack" /\ last.i # last.j) =>
       LET old == pre.pl[last.p].tracks
           new == pl[last.p].tracks
       IN /\ Len(new) = Len(old)
          /\ new[last.j + 1] = old[last.i + 1]
          /\ WithoutPosition(new, last.j + 1) = WithoutPosition(old, last.i + 1)
          /\ (old = <<"A", "B", "C", "D">> /\ last.i = 0 /\ last.j = 2)
               => new = <<"B", "C", "A", "D">>
  /\ (UndoRightAfter("moveTrack") /\ last.i # last.j) =>
       pl[last.p].tracks = pre.pl[last.p].tracks

\* [A,B,C,D] was changed by moveTrack(0, 2) and the undo, which calls
\* moveTrack(2, 0), has run.
C6_Witness ==
  /\ UndoRightAfter("moveTrack") /\ last.i = 0 /\ last.j = 2
  /\ pre.pl[1].tracks = <<"A", "B", "C", "D">>
  /\ pl[1].tracks = <<"A", "B", "C", "D">>
  /\ Len(events) > 1

----------------------------------------------------------------------------
(* uniqueTitle *)

\* 'Playlist ' + n
PlaylistTitle(n) == "Playlist " \o ToString(n)

\* The inner loop of uniqueTitle: whether a playlist of the set has the
\* title 'Playlist ' + n.
TitleFound(s, n) ==
  \E i \in 1..Len(s.playlists) : s.pl[s.playlists[i]].title = PlaylistTitle(n)

\* The outer loop of uniqueTitle, for (n = first; n < 1000; ++n): it returns
\* at the first n whose title is not found, and returns nothing when it
\* runs out.  `title` is assigned without var, so it is the global of that
\* name, and holds the last title tried.
UniqueTitleLoop(s, first) ==
  IF \E n \in first..(TitleLimit - 1) : ~TitleFound(s, n)
  THEN LET n == CHOOSE k \in first..(TitleLimit - 1) :
                  ~TitleFound(s, k) /\ \A m \in first..(k - 1) : TitleFound(s, m)
       IN [s EXCEPT !.globalTitle = PlaylistTitle(n),
                    !.ret = <<PlaylistTitle(n)>>]
  ELSE [s EXCEPT !.globalTitle = PlaylistTitle(TitleLimit - 1),
                 !.ret = <<>>]

\* uniqueTitle with its loop starting at 0.
UniqueTitleFromZero(s) == UniqueTitleLoop(s, 0)

\* PlaylistSet.prototype.uniqueTitle
UniqueTitle(s) == UniqueTitleLoop(s, 1)

CallUniqueTitle ==
  /\ Commit(UniqueTitle(Start))
  /\ last' = CallOf("uniqueTitle", 0, "", 0, 0)
  /\ pre' = ModelOf(St)
  /\ nundo' = nundo

\* Titles of the playlists of the small sets: generated ones, one a user
\* typed, and one that differs from a generated one by a leading zero.
TitleChoices == {"Playlist 1", "Playlist 2", "Playlist 3", "Mix", "Playlist 01"}

\* A set whose playlists carry the given titles, in order.
InitWithTitles(titles) ==
  /\ playlists = [k \in 1..Len(titles) |-> k]
  /\ pl = [p \in 1..Len(titles) |->
             [title |-> titles[p], description |-> "", tracks |-> <<>>]]
  /\ slots = [p \in 1..Len(titles) |-> NoSlots]
  /\ setSlots = [n \in SetSlotNames |-> NoCb]
  /\ mainView = NoView
  /\ nview = 0
  /\ InitRest

\* Every title uniqueTitle can generate, in order, but the one numbered
\* `skipped` (0: none is skipped).
GeneratedTitles(skipped) ==
  [k \in 1..(IF skipped = 0 THEN TitleLimit - 1 ELSE TitleLimit - 2) |->
     PlaylistTitle(IF skipped # 0 /\ k >= skipped THEN k + 1 ELSE k)]

\* Small sets with any titles, and sets that use all, or all but one, of the
\* titles uniqueTitle can generate.
InitTitle ==
  \/ \E titles \in SeqsUpTo(TitleChoices, MaxTitled) : InitWithTitles(titles)
  \/ \E skipped \in {0, 1, 500, TitleLimit - 1} :
       InitWithTitles(GeneratedTitles(skipped))

NextTitle == CallUniqueTitle

SpecTitle == InitTitle /\ [][NextTitle]_vars

TitleUsed(t) == \E k \in 1..Len(playlists) : pl[playlists[k]].title = t
FreeNumbers == {n \in 1..(TitleLimit - 1) : ~TitleUsed(PlaylistTitle(n))}

C7_WitnessExhausted ==
  /\ last.kind = "uniqueTitle"
  /\ Len(playlists) = TitleLimit - 1
  /\ ret = <<>>

----------------------------------------------------------------------------
(* The models with the views that register and clear their slots *)

\* A view switch made by the user, with the observation of it.
ViewSwitch(s, kind, p) ==
  /\ Commit(s)
  /\ last' = CallOf(kind, p, "", 0, 0)
  /\ pre' = pre
  /\ nundo' = nundo

\* A click on a playlist in the list of all playlists.
ClickPlaylist(p) ==
  /\ nview < MaxViews
  /\ mainView.kind = "set" /\ InSet(p)
  /\ ViewSwitch(PlaylistViewNew(Start, p), "clickPlaylist", p)

\* A click on the back button of a PlaylistView.
ClickBack ==
  /\ nview < MaxViews
  /\ mainView.kind = "playlist"
  /\ ViewSwitch(PlaylistSetViewNew(PlaylistViewRemove(Start)),
                "clickBack", 0)

\* The page after onLoad: playlist 1 restored from the stored snapshot, the
\* list of all playlists shown by the first view object.
InitNotify ==
  /\ playlists = <<1>>
  /\ pl = [p \in PL |->
             [title |-> IF p = 1 THEN "Playlist 1" ELSE "Playlist 2",
              description |-> "",
              tracks |-> IF p = 1 THEN <<"t1">> ELSE <<>>]]
  /\ slots = [p \in PL |-> NoSlots]
  /\ setSlots = [n \in SetSlotNames |-> IF n = "onChange" THEN ViewCb(1)
                                        ELSE NoCb]
  /\ mainView = [kind |-> "set", playlist |-> 0, id |-> 1]
  /\ nview = 1
  /\ InitRest

NextNotify ==
  \/ \E p \in PL : ClickPlaylist(p)
  \/ ClickBack
  \/ \E p \in PL : CallSetTitle(p, "Mix")
  \/ \E p \in PL : CallSetDescription(p, "d")
  \/ \E p \in PL : CallAddTrack(p, "t2")
  \/ \E p \in PL, track \in Tracks : CallDeleteTrack(p, track)
  \/ \E p \in PL, from \in 0..1, to \in 0..1 : CallMoveTrack(p, from, to)
  \/ \E p \in PL : CallAddPlaylist(p)
  \/ \E p \in PL : CallDeletePlaylist(p)
  \/ CallUndo

SpecNotify == InitNotify /\ [][NextNotify]_vars

AllSlots == ({0} \X SetSlotNames) \cup (PL \X SlotNames)

\* How often the last call invoked the callback of a slot.
NotifyCount(q, name) ==
  Cardinality({k \in 2..Len(events) :
                 /\ events[k].ev = "notify"
                 /\ events[k].p = q
                 /\ events[k].slot = name})

\* The slots whose event occurred in the last call: onTracksChange when a
\* mutator of a track sequence ran, and the post-mutation slots of a mutator
\* that reached its notification (moveTrack(i, i) returns before it).
FiredSlots ==
  IF ~RanMutator THEN {}
  ELSE LET r == Ran
           q == IF r.op \in {"addPlaylist", "deletePlaylist"} THEN 0 ELSE r.p
       IN (IF ChangesTracks(r.op) THEN {<<r.p, "onTracksChange">>} ELSE {})
          \cup (IF r.op = "moveTrack" /\ r.i = r.j THEN {}
                ELSE {<<q, name>> : name \in PostSlots(r.op)})

\* C9: a slot holds at most one callback, the last one assigned to it; an
\* event invokes that callback only, exactly once, and never one assigned
\* earlier; with the slot empty nothing is invoked and the mutator still
\* completes.
C9_SlotHoldsOneCallback ==
  /\ \A sl \in AllSlots :
       (IF sl[1] = 0 THEN setSlots[sl[2]] ELSE slots[sl[1]][sl[2]])
         = Held(regs[sl[1]][sl[2]])
  /\ \A k \in 2..Len(events) :
       events[k].ev = "notify" =>
         /\ events[k].cb # NoCb
         /\ events[k].cb = Held(events[k].regs[events[k].p][events[k].slot])
  /\ Len(events) > 0 =>
       \A sl \in AllSlots :
         NotifyCount(sl[1], sl[2]) =
           IF sl \in FiredSlots /\ Held(events[1].regs[sl[1]][sl[2]]) # NoCb
           THEN 1 ELSE 0
  /\ (RanMutator /\ ~(Ran.op = "moveTrack" /\ Ran.i = Ran.j)) =>
       events[Len(events)].ev = "save"

\* A callback assigned to a slot that already held another one.
AssignedTwice(assigned) ==
  \E a, b \in 1..Len(assigned) :
    a < b /\ assigned[a] # NoCb /\ assigned[b] # NoCb
          /\ assigned[a] # assigned[b]

\* setTitle on a playlist opened in a second PlaylistView: onTitleChange was
\* assigned by both views, and the callback of the second one ran.
C9_Witness ==
  /\ last.kind = "setTitle"
  /\ AssignedTwice(regs[last.p]["onTitleChange"])
  /\ Len(events) = 4
  /\ events[2].ev = "notify"
  /\ events[2].cb = Held(regs[last.p]["onTitleChange"])

\* addTrack with the slots it fires empty: nothing ran but log and save.
C9_WitnessEmpty ==
  /\ last.kind = "addTrack"
  /\ Len(regs[last.p]["onAddTrack"]) > 0
  /\ slots[last.p]["onAddTrack"] = NoCb
  /\ Len(events) = 3
  /\ events[3].ev = "save"

----------------------------------------------------------------------------
(* The Player with the streaming service and the audio engine *)

\* A step of the Player, with the observation of it.  SC.stream is called
\* at most MaxReq times in a run.
PlayerStep(s, kind, x, i) ==
  /\ s.nreq <= MaxReq
  /\ Commit(s)
  /\ last' = CallOf(kind, player.playlist, x, i, 0)
  /\ pre' = pre
  /\ nundo' = nundo

\* A click on the player button while it reads Play.
ClickPlay ==
  /\ player.label = "Play"
  /\ PlayerStep(PlayerPlay(Start), "clickPlay", "", 0)

\* A click on the player button while it reads Stop.
ClickStop ==
  /\ player.label = "Stop"
  /\ PlayerStep(PlayerStop(Start), "clickStop", "", 0)

\* The streaming service answers a request.
StreamResponse(r) ==
  /\ r \in requests
  /\ PlayerStep(StreamCallback(Start, r), r.kind, r.track, r.id)

\* The audio engine reports that a playing sound has finished.
SoundFinished(sound) ==
  /\ sound \in playing
  /\ PlayerStep(OnFinish(Start, sound), "finish", sound.track, sound.id)

PlayerInitTracks == {<<>>, <<"A">>, <<"A", "B">>, <<"A", "B", "C">>}

\* The sound objects and the requests there can be.
Sounds == [id : 1..MaxReq, track : {"A", "B", "C"}]
Requests == [id : 1..MaxReq, track : {"A", "B", "C"}, during : 0..MaxReq,
             kind : {"play", "preload"}]

\* The page with the PlaylistView of playlist 1 open, its Player idle.
InitPlayer ==
  /\ playlists = <<1>>
  /\ \E tr \in PlayerInitTracks :
       pl = [p \in PL |->
               [title |-> IF p = 1 THEN "Playlist 1" ELSE "Playlist 2",
                description |-> "",
                tracks |-> IF p = 1 THEN tr ELSE <<>>]]
  /\ slots = [p \in PL |-> IF p = 1 THEN ViewSlots(ViewCb(2)) ELSE NoSlots]
  /\ setSlots = SetSlotsInPlaylistView
  /\ mainView = [kind |-> "playlist", playlist |-> 1, id |-> 2]
  /\ nview = 2
  /\ InitRest

NextPlayer ==
  \/ ClickPlay
  \/ ClickStop
  \/ \E r \in Requests : StreamResponse(r)
  \/ \E sound \in Sounds : SoundFinished(sound)

SpecPlayer == InitPlayer /\ [][NextPlayer]_vars

\* The step is the completion report of the sound the Player holds as its
\* current one, a playing sound of the track at the Player's index.
CurrentSoundFinishes ==
  /\ last'.kind = "finish"
  /\ player.sound \in playing
  /\ last'.i = player.sound.id
  /\ player.index >= 0
  /\ player.sound.track = ElementAt(PlayerTracks(St), player.index)

\* The step is the arrival of the sound of a request made by playNextTrack.
RequestedSoundArrives ==
  /\ last'.kind = "play"
  /\ \E r \in requests : r.kind = "play" /\ r.id = last'.i /\ r \notin requests'

\* After such a completion at index i: past the end the Player is idle with
\* index -1; else the index is i + 1 and either the preloaded sound is now
\* the current one and playing (and, if trackToo, is a sound of the track at
\* i + 1), or a sound of the track at i + 1 has been requested.
AdvancesOnCompletion(trackToo) ==
  LET i == player.index
      tr == pl[player.playlist].tracks
  IN IF i + 1 < Len(tr)
     THEN /\ player'.index = i + 1
          /\ IF player.nextSound # NoSound
             THEN /\ player'.sound = player.nextSound
                  /\ player'.sound \in playing'
                  /\ trackToo => player'.sound.track = tr[i + 2]
             ELSE \E r \in requests' \ requests :
                    r.kind = "play" /\ r.track = tr[i + 2]
     ELSE /\ player'.index = -1
          /\ player'.label = "Play"
          /\ player'.sound = NoSound

\* The sound that arrived is the current one and playing.
PlaysOnArrival ==
  /\ player'.sound = [id |-> last'.i, track |-> last'.x]
  /\ player'.sound \in playing'

\* C10: after the handle playing the track at index i reports completion the
\* index is i + 1; if that is inside the track sequence, playback of the
\* track at i + 1 begins without a user action, at once from the preloaded
\* handle if there is one, else when the requested handle arrives; if it is
\* past the end the Player is idle with index -1.
C10_AdvancesToNextTrack ==
  /\ [][CurrentSoundFinishes => AdvancesOnCompletion(TRUE)]_vars
  /\ [][RequestedSoundArrives => PlaysOnArrival]_vars

\* The same without asking which track the preloaded handle is a sound of.
C10_AdvancesToSomeHandle ==
  /\ [][CurrentSoundFinishes => AdvancesOnCompletion(FALSE)]_vars
  /\ [][RequestedSoundArrives => PlaysOnArrival]_vars

\* The Player has advanced to index 2 of [A, B, C] and plays a sound of B
\* there.
C10_WitnessStalePreload ==
  /\ last.kind = "finish"
  /\ player.index = 2
  /\ player.sound \in playing
  /\ player.sound.track = "B"
  /\ pl[player.playlist].tracks = <<"A", "B", "C">>

\* play() on [A, B], A completed, B completed: the Player is idle.
C10_WitnessScenario ==
  /\ pl[player.playlist].tracks = <<"A", "B">>
  /\ last.kind = "finish" /\ last.x = "B"
  /\ nreq = 2
  /\ player.index = -1 /\ player.label = "Play" /\ player.sound = NoSound
  /\ playing = {}

----------------------------------------------------------------------------
(* The Player while the tracks of its playlist are edited *)

\* Player.stop() called in any state of the Player, as a test calls it; a
\* click on the button while it reads Stop is such a call.
CallStop == PlayerStep(PlayerStop(Start), "stop", "", 0)

\* The edits the PlaylistView of playlist 1 offers: the Add button of the
\* search results, the delete button of a track, a drop, and the undo button.
NextPlayerEdit ==
  \/ ClickPlay /\ nreq' <= MaxEditReq
  \/ CallStop
  \/ \E r \in Requests : StreamResponse(r) /\ nreq' <= MaxEditReq
  \/ \E sound \in Sounds : SoundFinished(sound) /\ nreq' <= MaxEditReq
  \/ \E track \in {"A", "B"} : nlog < MaxEdits /\ CallAddTrack(1, track)
  \/ \E track \in {"A", "B"} : nlog < MaxEdits /\ CallDeleteTrack(1, track)
  \/ \E from \in 0..1, to \in 0..1 :
       nlog < MaxEdits /\ CallMoveTrack(1, from, to)
  \/ CallUndo

SpecPlayerEdit == InitPlayer /\ [][NextPlayerEdit]_vars

\* The Player is idle: the button reads Play, no index, no sounds held.
PlayerIdle(p) ==
  /\ p.label = "Play"
  /\ p.index = -1
  /\ p.sound = NoSound
  /\ p.nextSound = NoSound

\* C11: play() on a playlist with zero tracks returns with the Player idle
\* (index -1, no current sound, no preloaded sound), has issued no stream
\* request and has started no playback.
C11_PlayOnEmptyStaysIdle ==
  [][(last'.kind = "clickPlay" /\ Len(PlayerTracks(St)) = 0) =>
       /\ PlayerIdle(player')
       /\ requests' = requests
       /\ nreq' = nreq
       /\ playing' = playing]_vars

\* play() was called on a playlist emptied while a stream request was in
\* flight, whose sound has arrived since and is still playing.
C11_Witness ==
  /\ last.kind = "clickPlay"
  /\ Len(PlayerTracks(St)) = 0
  /\ PlayerIdle(player)
  /\ playing # {}

\* C12: stop() called while the Player is idle (the button reads Play: the
\* last of play() and stop() was a stop) leaves the index, the current
\* sound, the preloaded sound and the mode as they were, stops no handle, and
\* touches neither the playlists nor the History.
C12_StopWhileIdleChangesNothing ==
  [][(last'.kind = "stop" /\ player.label = "Play") =>
       /\ player' = player
       /\ playing' = playing
       /\ pl' = pl /\ playlists' = playlists
       /\ records' = records]_vars

\* The same for a Player that is idle and holds no sound.
C12_StopWhileIdleWithoutSound ==
  [][(last'.kind = "stop" /\ PlayerIdle(player)) =>
       /\ player' = player
       /\ playing' = playing
       /\ pl' = pl /\ playlists' = playlists
       /\ records' = records]_vars

\* C13: after stop() returns, from any state, the Player is idle with index
\* -1, no current sound and no preloaded sound, and the sound that was the
\* current one, if any, is not playing any more.
C13_StopLeavesPlayerIdle ==
  [][last'.kind = "stop" =>
       /\ PlayerIdle(player')
       /\ player.sound # NoSound => player.sound \notin playing']_vars

\* The same for the calls of stop() made while the Player holds a current
\* sound or holds no preloaded one.
C13_StopLeavesIdleUnlessOnlyPreloadHeld ==
  [][(last'.kind = "stop" /\
      (player.sound # NoSound \/ player.nextSound = NoSound)) =>
       /\ PlayerIdle(player')
       /\ player.sound # NoSound => player.sound \notin playing']_vars

\* stop() was called while the first handle was still being loaded.
C13_WitnessWhileLoading ==
  /\ last.kind = "stop"
  /\ PlayerIdle(player)
  /\ playing = {}
  /\ \E r \in requests : r.kind = "play" /\ r.id = 1

\* stop() has returned and the Player still holds a preloaded sound.
C13_WitnessPreloadKept ==
  /\ last.kind = "stop"
  /\ player.nextSound # NoSound

\* The last call ran addTrack, deleteTrack or moveTrack on the playlist of
\* the Player while the Player's callback was in its onTracksChange slot.
EditedUnderPlayer ==
  /\ RanMutator
  /\ ChangesTracks(Ran.op)
  /\ Ran.p = player.playlist
  /\ SlotOf(Ran.op, Ran.p, "onTracksChange") = PlayerStopCb

\* C14: addTrack, deleteTrack and moveTrack on a playlist with a Player
\* attached stop the Player before the track sequence is modified, and the
\* Player is idle with index -1 when they return; so whenever the Player is
\* playing (the button reads Stop) with a current sound, its index is inside
\* the track sequence.
C14_EditsStopThePlayer ==
  /\ EditedUnderPlayer =>
       /\ Len(events) >= 2
       /\ events[2].ev = "notify"
       /\ events[2].slot = "onTracksChange"
       /\ events[2].cb = PlayerStopCb
       /\ events[2].model = events[1].model
       /\ player.label = "Play"
       /\ player.index = -1
       /\ player.sound = NoSound
       /\ \A k \in 3..Len(events) : events[k].slot # "onTracksChange"
  /\ (player.label = "Stop" /\ player.sound # NoSound) =>
       /\ player.index >= 0
       /\ player.index < Len(PlayerTracks(St))

\* deleteTrack was called while a sound was playing and its successor was
\* being preloaded: the Player is idle and nothing plays.
C14_Witness ==
  /\ last.kind = "deleteTrack"
  /\ EditedUnderPlayer
  /\ events[2].model # Model
  /\ \E r \in requests : r.kind = "preload"
  /\ playing = {}
  /\ player.index = -1

----------------------------------------------------------------------------
(* Claims about the stored snapshot and the undo button *)

\* What the store holds is one value, listing the playlists of the set in
\* their order, each with its title, description and track sequence.
StoreHoldsTheSet ==
  /\ Len(storage) = 1
  /\ Len(storage[1]) = Len(playlists)
  /\ \A k \in 1..Len(playlists) :
       /\ storage[1][k].title = pl[playlists[k]].title
       /\ storage[1][k].description = pl[playlists[k]].description
       /\ storage[1][k].tracks = pl[playlists[k]].tracks

\* C15: after every mutator call, made directly or from inside an undo, the
\* store holds the full snapshot of the current set: the same playlists in
\* the same order, each with its current title, description and tracks.
C15_StoreHoldsTheSetAfterMutators == RanMutator => StoreHoldsTheSet

\* An undo has put back a deleted track, at the end of a sequence that the
\* store holds in the new order.
C15_Witness ==
  /\ UndoRightAfter("deleteTrack") /\ last.rid # 0
  /\ pl[1].tracks = <<"t2", "t1", "t1">>
  /\ StoreHoldsTheSet
  /\ storage[1][1].tracks = <<"t2", "t1", "t1">>

\* C16: between calls the undo button agrees with the stack: it is disabled
\* exactly when the stack is empty, and otherwise shows the description of
\* the top record, the most recently logged one not yet undone.
C16_UndoButtonShowsTop ==
  /\ ~duringUndo
  /\ button.disabled = (Len(records) = 0)
  /\ Len(records) = 0 => button.innerHTML = "Undo"
  /\ Len(records) > 0 =>
       /\ button.innerHTML = "Undo " \o records[Len(records)].description
       /\ \A k \in 1..(Len(records) - 1) :
            records[k].id < records[Len(records)].id

\* An undo has uncovered an older record, which the button now shows.
C16_Witness ==
  /\ last.kind = "undo" /\ last.rid = 2
  /\ Len(records) = 1
  /\ records[1].description = "Add Track"
  /\ button = [disabled |-> FALSE, innerHTML |-> "Undo Add Track"]

----------------------------------------------------------------------------
(* Claims about the state a revert runs in *)

\* The call is an undo() that invokes the revert of the top record.
UndoInvokesRevert == last'.kind = "undo" /\ Len(records) > 0

\* C17: whenever undo() invokes a record's revert, every title, description
\* and track sequence and the playlist sequence equal what they were when
\* the recorded mutation completed, for every record in any sequence of
\* mutators and undos.
C17_RevertRunsInRecordedState ==
  [][UndoInvokesRevert => Model = records[Len(records)].after]_vars

\* What does hold: the revert of a record runs in the recorded state when
\* no undo() has been made before it.
C17_RevertRunsInRecordedStateBeforeAnyUndo ==
  [][UndoInvokesRevert /\ nundo = 0
       => Model = records[Len(records)].after]_vars

\* A record below an undone deleteTrack record is reverted: the track came
\* back at the end, and the record's revert runs in another state than the
\* one its mutation left.
C17_WitnessBelowUndoneDelete ==
  /\ last.kind = "undo" /\ last.rid = 1 /\ nundo = 2
  /\ last.rev.op = "moveTrack"
  /\ undone = <<2, 1>>
  /\ pre.pl[1].tracks = <<"t1", "t2">>
  /\ Model.pl[1].tracks = <<"t2", "t1">>

----------------------------------------------------------------------------
(* Mutators called with arguments the model does not hold: the             *)
(* specification of the claims about absent elements and indices out of    *)
(* range                                                                   *)

\* deleteTrack of a track the playlist does not hold
CallDeleteAbsentTrack(p, track) ==
  /\ nlog < MaxLog /\ InSet(p)
  /\ IndexOf(pl[p].tracks, track) = -1
  /\ Mutator(DeleteTrack(Start, p, track),
             CallOf("deleteTrack", p, track, 0, 0))

\* deletePlaylist of a playlist that is not in the set
CallDeleteAbsentPlaylist(p) ==
  /\ nlog < MaxLog /\ ~InSet(p)
  /\ Mutator(DeletePlaylist(Start, p), CallOf("deletePlaylist", p, "", 0, 0))

\* An index of the track sequence of p, counted as JavaScript does.
InRange(p, i) == 0 <= i /\ i < Len(pl[p].tracks)

\* moveTrack with from or to outside the track sequence
CallMoveTrackOutside(p, from, to) ==
  /\ nlog < MaxLog /\ InSet(p)
  /\ ~InRange(p, from) \/ ~InRange(p, to)
  /\ Mutator(MoveTrack(Start, p, from, to),
             CallOf("moveTrack", p, "", from, to))

\* The indices a caller may pass: one below and one above every index.
AnyIndex == -1..MaxTracks

\* The tracks a caller may pass: one more than the playlists ever start with.
AnyTrack == Tracks \cup {"t3"}

NextAnyArgs ==
  \/ \E p \in PL, track \in Tracks : nlog < MaxAnyCalls /\ CallAddTrack(p, track)
  \/ \E p \in PL, track \in Tracks :
       nlog < MaxAnyCalls /\ CallDeleteTrack(p, track)
  \/ \E p \in PL, track \in AnyTrack :
       nlog < MaxAnyCalls /\ CallDeleteAbsentTrack(p, track)
  \/ \E p \in PL, from \in 0..(MaxTracks - 1), to \in 0..(MaxTracks - 1) :
       nlog < MaxAnyCalls /\ CallMoveTrack(p, from, to)
  \/ \E p \in PL, from \in AnyIndex, to \in AnyIndex :
       nlog < MaxAnyCalls /\ CallMoveTrackOutside(p, from, to)
  \/ \E p \in PL : nlog < MaxAnyCalls /\ CallAddPlaylist(p)
  \/ \E p \in PL : nlog < MaxAnyCalls /\ CallDeletePlaylist(p)
  \/ \E p \in PL : nlog < MaxAnyCalls /\ CallDeleteAbsentPlaylist(p)
  \/ CallUndo

SpecAnyArgs == Init /\ [][NextAnyArgs]_vars

\* The last call was deleteTrack or deletePlaylist of an absent element.
DeletesAbsent ==
  \/ last'.kind = "deleteTrack" /\ IndexOf(pl[last'.p].tracks, last'.x) = -1
  \/ last'.kind = "deletePlaylist" /\ ~InSet(last'.p)

\* C18: deleteTrack(t) with t not in the playlist's track sequence, and
\* deletePlaylist(p) with p not in the set, leave the track sequences, the
\* playlist sequence and the History stack unchanged.
C18_DeleteOfAbsentChangesNothing ==
  [][DeletesAbsent => /\ pl' = pl
                      /\ playlists' = playlists
                      /\ records' = records]_vars

\* What the code does instead: indexOf answers -1, splice(-1, 1) removes
\* the last element of the sequence (none of an empty one), and a record is
\* pushed whose revert adds the absent element.
C18_DeleteOfAbsentRemovesLast ==
  [][DeletesAbsent =>
       /\ Len(records') = Len(records) + 1
       /\ records'[Len(records')].revert.op \in {"addTrack", "addPlaylist"}
       /\ last'.kind = "deleteTrack" =>
            /\ playlists' = playlists
            /\ \A q \in PL \ {last'.p} : pl'[q] = pl[q]
            /\ pl'[last'.p].tracks =
                 SubSeq(pl[last'.p].tracks, 1, Len(pl[last'.p].tracks) - 1)
       /\ last'.kind = "deletePlaylist" =>
            /\ pl' = pl
            /\ playlists' = SubSeq(playlists, 1, Len(playlists) - 1)]_vars

\* deleteTrack of an absent track has removed another track.
C18_WitnessTrack ==
  /\ last.kind = "deleteTrack"
  /\ pre.pl[1].tracks = <<"t1", "t2">>
  /\ last.x = "t3"
  /\ Model.pl[1].tracks = <<"t1">>

\* deletePlaylist of an absent playlist has removed the only one of the set.
C18_WitnessPlaylist ==
  /\ last.kind = "deletePlaylist" /\ last.p = 2
  /\ pre.playlists = <<1>>
  /\ playlists = <<>>

\* The last call was moveTrack with from or to outside [0, length).
MovesOutside ==
  /\ last'.kind = "moveTrack"
  /\ ~InRange(last'.p, last'.i) \/ ~InRange(last'.p, last'.j)

\* Every element of every track sequence is a track.
OnlyTracks(m) ==
  \A p \in PL : \A k \in 1..Len(m.pl[p].tracks) :
    m.pl[p].tracks[k] # Undefined

\* C19: moveTrack(from, to) with from or to outside [0, length) leaves the
\* track sequence and the History stack unchanged, and no mutator call
\* makes a track sequence contain an element that is not a track.
C19_MoveOutsideChangesNothing ==
  [][/\ MovesOutside => pl' = pl /\ records' = records
     /\ OnlyTracks(Model) => OnlyTracks(Model')]_vars

\* What does hold: moveTrack with from = to changes nothing wherever the
\* index lies, and a call with from inside the sequence and to outside it
\* keeps the tracks the sequence holds, each as often as before.
C19_MoveOutsideKeepsTracksWhenFromInside ==
  [][MovesOutside =>
       /\ last'.i = last'.j => pl' = pl /\ records' = records
       /\ InRange(last'.p, last'.i) =>
            /\ Len(pl'[last'.p].tracks) = Len(pl[last'.p].tracks)
            /\ \A x \in AnyTrack \cup {Undefined} :
                 Cardinality({k \in 1..Len(pl[last'.p].tracks) :
                                pl[last'.p].tracks[k] = x})
                 = Cardinality({k \in 1..Len(pl'[last'.p].tracks) :
                                  pl'[last'.p].tracks[k] = x})]_vars

\* moveTrack with from past the end has inserted undefined and pushed a
\* record.
C19_WitnessUndefinedInserted ==
  /\ last.kind = "moveTrack" /\ last.i = 2 /\ last.j = 0
  /\ pre.pl[1].tracks = <<"t1", "t2">>
  /\ Model.pl[1].tracks = <<Undefined, "t1", "t2">>
  /\ Len(records) = 1

\* moveTrack(-1, 0) has read undefined at index -1, removed the last track
\* and inserted undefined at the front.
C19_WitnessNegativeFrom ==
  /\ last.kind = "moveTrack" /\ last.i = -1 /\ last.j = 0
  /\ pre.pl[1].tracks = <<"t1", "t2">>
  /\ Model.pl[1].tracks = <<Undefined, "t1">>

----------------------------------------------------------------------------
(* Claims about the record a mutator call pushes *)

\* The step is a mutator call made from outside an undo.
MutatorCall == last'.kind \in MutatorKinds

\* The step pushes exactly one record, a new one, onto the History stack.
PushesOneRecord ==
  /\ Len(records') = Len(records) + 1
  /\ SubSeq(records', 1, Len(records)) = records
  /\ records'[Len(records')].id = nlog + 1

\* The step is the undo() that follows a mutator call, and the record it
\* pops is the one that call pushed.
UndoRevertsLastCall ==
  (last'.kind = "undo" /\ last.kind \in MutatorKinds)
    => /\ Len(records) = last.depth + 1
       /\ last'.rid = nlog

\* C20: every mutator call made while no undo is in progress, moveTrack(i, i)
\* included, pushes exactly one record onto the History stack, so that the
\* next undo() reverts that call and not an earlier one.
C20_EveryCallPushesOneRecord ==
  [][/\ MutatorCall => PushesOneRecord
     /\ UndoRevertsLastCall]_vars

\* What does hold: every call but moveTrack with from = to pushes exactly
\* one record, and the undo() after such a call reverts it.
C20_EveryCallButEqualMovePushesOneRecord ==
  [][/\ (MutatorCall /\ ~(last'.kind = "moveTrack" /\ last'.i = last'.j))
          => PushesOneRecord
     /\ ~(last.kind = "moveTrack" /\ last.i = last.j) => UndoRevertsLastCall
     /\ (MutatorCall /\ last'.kind = "moveTrack" /\ last'.i = last'.j)
          => records' = records]_vars

\* The undo() after moveTrack(i, i) has reverted the call made before it.
C20_WitnessUndoRevertsEarlierCall ==
  /\ last.kind = "undo" /\ last.of = "moveTrack" /\ last.i = last.j
  /\ last.rid = 1 /\ last.rev.op = "deleteTrack"
  /\ nlog = 1 /\ Len(records) = 0

----------------------------------------------------------------------------
(* undo() whose revert throws: the specification of the claim about the    *)
(* suppression flag                                                        *)

\* History.undo when the assignment to localStorage.playlists in save()
\* throws (the quota is exceeded): the revert has changed the models, fired
\* its callbacks and skipped History.log; the exception leaves save, the
\* mutator, the revert and undo, so the two statements after undo.revert()
\* do not run.
HistoryUndoSaveThrows(s) ==
  IF Len(s.records) = 0 THEN s
  ELSE LET undo == s.records[Len(s.records)]
           s1 == [s EXCEPT !.records = SubSeq(@, 1, Len(@) - 1)]
           s2 == [s1 EXCEPT !.duringUndo = TRUE]
           s3 == CallRevert([s2 EXCEPT !.undone = Append(@, undo.id)],
                            undo.revert)
       IN [s3 EXCEPT !.storage = s.storage]

\* A click on the undo button during which the store refuses the write.
CallUndoSaveThrows ==
  /\ Len(records) > 0
  /\ Commit(HistoryUndoSaveThrows(Start))
  /\ last' = [kind |-> "undoThrows", p |-> last.p, x |-> last.x,
              i |-> last.i, j |-> last.j, depth |-> Len(records),
              of |-> last.kind, rid |-> records[Len(records)].id,
              rev |-> records[Len(records)].revert]
  /\ pre' = ModelOf(St)
  /\ nundo' = nundo + 1

\* The calls after which logging is observed: edits of playlist 1.
NextThrows ==
  \/ \E title \in Titles : CallSetTitle(1, title)
  \/ \E track \in Tracks : CallAddTrack(1, track)
  \/ \E track \in Tracks : CallDeleteTrack(1, track)
  \/ CallUndo
  \/ CallUndoSaveThrows

SpecThrows == Init /\ [][NextThrows]_vars

\* C21: the suppression flag is false in every state between top-level
\* events, also after an undo() whose revert failed, so that every later
\* mutator call is logged.
C21_FlagFalseBetweenEvents ==
  [][/\ ~duringUndo'
     /\ (last'.kind \in MutatorKinds) => Len(records') = Len(records) + 1]_vars

\* What does hold: the flag is false after every call until an undo() is
\* left by an exception, and while it is false every call is logged.
C21_FlagFalseUntilUndoThrows ==
  [][/\ (~duringUndo /\ last'.kind # "undoThrows") => ~duringUndo'
     /\ (~duringUndo /\ last'.kind \in MutatorKinds)
          => Len(records') = Len(records) + 1]_vars

\* After an undo() that failed, a title change was made and not logged.
C21_WitnessNotLogged ==
  /\ duringUndo
  /\ last.kind = "setTitle" /\ last.x = "Mix"
  /\ pl[1].title = "Mix"
  /\ Len(records) = last.depth
  /\ nundo = 1

----------------------------------------------------------------------------
(* Claims about preloading *)

\* The requests the step issues.
NewRequests == requests' \ requests

\* The request SC.stream issues in the step for the track at index i.
RequestFor(i, kind) ==
  [id |-> nreq + 1, track |-> ElementAt(PlayerTracks(St), i), kind |-> kind,
   during |-> IF kind = "preload" THEN player'.sound.id ELSE 0]

\* The step calls playNextTrack and the new index is inside the track
\* sequence: the Player advances to NewIndex.
NewIndex == IF last'.kind = "clickPlay" THEN 0 ELSE player.index + 1
Advances ==
  /\ last'.kind \in {"clickPlay", "finish"}
  /\ NewIndex < Len(PlayerTracks(St))

\* The preload slot as playNextTrack finds it (play() has emptied it).
SlotAtAdvance == IF last'.kind = "clickPlay" THEN NoSound ELSE player.nextSound

\* The step calls playSound: a handle starts playing.
PlaybackStarts ==
  last'.kind = "play" \/ (Advances /\ SlotAtAdvance # NoSound)

C22_WitnessLastIndex ==
  /\ last.kind = "play" /\ last.x = "A"
  /\ PlayerTracks(St) = <<"A">>
  /\ player.index = 0 /\ player.sound \in playing
  /\ nreq = 1 /\ requests = {}

\* The request answered in the step, a preload request.
PreloadAnswered(r) ==
  /\ last'.kind = "preload"
  /\ r \in requests /\ r \notin requests' /\ r.id = last'.i

\* The Player still plays the sound during whose playback r was requested.
StillRelevant(r) ==
  /\ player.label = "Stop"
  /\ player.sound.id = r.during
  /\ player.sound \in playing

\* C23: a preload response is written to the preload slot only if, when it
\* arrives, the Player is still playing the track during whose playback the
\* preload was requested; one that arrives after stop(), after a change of
\* the track sequence or after the Player has advanced past that track
\* does not change the slot.
C23_PreloadWrittenOnlyIfRelevant ==
  [][\A r \in Requests :
       (PreloadAnswered(r) /\ ~StillRelevant(r))
         => player'.nextSound = player.nextSound]_vars

\* What does hold: every preload response is written to the slot, the
\* relevant ones included, and changes nothing else in the Player.
C23_PreloadAlwaysWritten ==
  [][\A r \in Requests :
       PreloadAnswered(r) =>
         /\ player'.nextSound = [id |-> r.id, track |-> r.track]
         /\ player' = [player EXCEPT !.nextSound = player'.nextSound]
         /\ playing' = playing]_vars

\* A preload response has arrived after stop() and sits in the slot of the
\* idle Player.
C23_WitnessAfterStop ==
  /\ last.kind = "preload"
  /\ player.label = "Play" /\ player.index = -1 /\ player.sound = NoSound
  /\ player.nextSound = [id |-> 2, track |-> "B"]

\* The preload response for B has arrived after the Player had advanced to
\* B and on to C, and sits in the slot while C plays.
C23_WitnessAfterAdvance ==
  /\ last.kind = "preload" /\ last.x = "B"
  /\ PlayerTracks(St) = <<"A", "B", "C">>
  /\ player.index = 2
  /\ player.sound.track = "C" /\ player.sound \in playing
  /\ player.nextSound = [id |-> 2, track |-> "B"]

----------------------------------------------------------------------------
(* One play() that nothing interrupts: the specification of the liveness   *)
(* claim                                                                   *)

\* play() is clicked once, on a playlist of 1 .. MaxLiveTracks tracks; no
\* stop() is clicked and the tracks are not edited.  A run issues at most
\* one play request and one preload request per track but the first, so
\* no step has to be cut off.
LiveTrackNames == <<"A", "B", "C", "D", "E">>
LiveTracks == {SubSeq(LiveTrackNames, 1, n) : n \in 1..MaxLiveTracks}
LiveRequestIds == 1..(2 * MaxLiveTracks - 1)
LiveTrackSet == {LiveTrackNames[k] : k \in 1..Len(LiveTrackNames)}
LiveSounds == [id : LiveRequestIds, track : LiveTrackSet]
LiveRequests == [id : LiveRequestIds, track : LiveTrackSet,
                 during : {0} \cup LiveRequestIds, kind : {"play", "preload"}]

LiveStep(s, kind, x, i) ==
  /\ Commit(s)
  /\ last' = CallOf(kind, player.playlist, x, i, 0)
  /\ pre' = pre
  /\ nundo' = nundo

LiveClickPlay ==
  /\ player.label = "Play" /\ nreq = 0
  /\ LiveStep(PlayerPlay(Start), "clickPlay", "", 0)

LiveStreamResponse(r) ==
  /\ r \in requests
  /\ LiveStep(StreamCallback(Start, r), r.kind, r.track, r.id)

LiveSoundFinished(sound) ==
  /\ sound \in playing
  /\ LiveStep(OnFinish(Start, sound), "finish", sound.track, sound.id)

InitPlayerLive ==
  /\ playlists = <<1>>
  /\ \E tr \in LiveTracks :
       pl = [p \in PL |->
               [title |-> IF p = 1 THEN "Playlist 1" ELSE "Playlist 2",
                description |-> "",
                tracks |-> IF p = 1 THEN tr ELSE <<>>]]
  /\ slots = [p \in PL |-> IF p = 1 THEN ViewSlots(ViewCb(2)) ELSE NoSlots]
  /\ setSlots = SetSlotsInPlaylistView
  /\ mainView = [kind |-> "playlist", playlist |-> 1, id |-> 2]
  /\ nview = 2
  /\ InitRest

NextPlayerLive ==
  \/ LiveClickPlay
  \/ \E r \in LiveRequests : LiveStreamResponse(r)
  \/ \E sound \in LiveSounds : LiveSoundFinished(sound)

\* Every stream request is eventually answered and every started handle
\* eventually reports completion.
SpecPlayerLive ==
  /\ InitPlayerLive
  /\ [][NextPlayerLive]_vars
  /\ \A r \in LiveRequests : WF_vars(LiveStreamResponse(r))
  /\ \A sound \in LiveSounds : WF_vars(LiveSoundFinished(sound))

\* The Player is idle with index -1.
IdleAtStart == player.label = "Play" /\ player.index = -1

\* C24: after play() on a playlist of n >= 1 tracks, if every stream
\* request is eventually answered, every started handle eventually reports
\* completion, and no stop() or track mutation occurs, the Player
\* eventually becomes idle with index -1, having started playback for the
\* positions 0, 1, ..., n-1 in that order, each exactly once: the index
\* runs through the positions one by one, and the handle started at a
\* position is one of the track at it, started while nothing else plays.
C24_PlaysEveryPositionThenIdle ==
  /\ [][/\ player'.index # player.index =>
             \/ player'.index = player.index + 1
                  /\ player'.index < Len(PlayerTracks(St))
             \/ player'.index = -1 /\ player'.label = "Play"
                  /\ player.index = Len(PlayerTracks(St)) - 1
        /\ PlaybackStarts =>
             /\ player'.sound.track
                  = ElementAt(PlayerTracks(St), player'.index)
             /\ playing' = {player'.sound}]_vars
  /\ (player.label = "Stop") ~> IdleAtStart

\* What does hold: the index runs through 0, 1, ..., n-1 one by one, at
\* most one handle plays at a time, and the Player eventually becomes idle
\* with index -1.
C24_IndexRunsThroughThenIdle ==
  /\ [][/\ player'.index # player.index =>
             \/ player'.index = player.index + 1
                  /\ player'.index < Len(PlayerTracks(St))
             \/ player'.index = -1 /\ player'.label = "Play"
                  /\ player.index = Len(PlayerTracks(St)) - 1
        /\ PlaybackStarts => playing' = {player'.sound}]_vars
  /\ (player.label = "Stop") ~> IdleAtStart

\* At position 2 of [A, B, C] the handle that plays is one of B, taken from
\* the slot a late preload response had filled.
C24_WitnessWrongHandle ==
  /\ PlayerTracks(St) = <<"A", "B", "C">>
  /\ player.label = "Stop" /\ player.index = 2
  /\ player.sound.track = "B" /\ player.sound \in playing

\* The playlist [A, B, C] was played to its end.
C24_WitnessPlayedToEnd ==
  /\ PlayerTracks(St) = <<"A", "B", "C">>
  /\ last.kind = "finish" /\ last.x = "C"
  /\ IdleAtStart /\ playing = {} /\ requests = {}

----------------------------------------------------------------------------
(* Claims about the handle that plays *)

\* C25: whenever a handle starts playing while the Player's index is i, the
\* handle was obtained from a stream request for the track at position i of
\* the current track sequence, for every order in which the answers to
\* play and preload requests arrive.
C25_StartedHandleIsOfTrackAtIndex ==
  [][PlaybackStarts =>
       /\ player'.index >= 0
       /\ player'.sound.track
            = ElementAt(PlayerTracks(St), player'.index)]_vars

\* What does hold: the handle that starts is the one of the play request
\* answered in the step, or the one the preload slot held, whatever track
\* it belongs to.
C25_StartedHandleIsAnswerOrSlot ==
  [][PlaybackStarts =>
       /\ player'.sound \in playing'
       /\ IF last'.kind = "play"
          THEN /\ player'.sound = [id |-> last'.i, track |-> last'.x]
               /\ player'.index = player.index
          ELSE /\ player'.sound = player.nextSound
               /\ player'.index = player.index + 1]_vars

\* B is reached while its preload is in flight and is fetched again; the
\* preload answer arrives while B plays and is played at index 2 of
\* [A, B, C], in place of C.
C25_WitnessPreloadPlayedLate ==
  /\ PlayerTracks(St) = <<"A", "B", "C">>
  /\ last.kind = "finish" /\ last.x = "B" /\ last.i = 3
  /\ player.label = "Stop" /\ player.index = 2
  /\ player.sound = [id |-> 2, track |-> "B"] /\ player.sound \in playing

\* The handle of a play request answered in time plays at its index.
C25_WitnessPlayAnswer ==
  /\ PlayerTracks(St) = <<"A", "B">>
  /\ last.kind = "play" /\ last.x = "B"
  /\ player.label = "Stop" /\ player.index = 1
  /\ player.sound.track = "B" /\ player.sound \in playing

\* C26: while the Player is idle (from stop() or a change of the track
\* sequence until the next play()), no handle starts playing and the index
\* stays -1; a stream response requested before the stop and arriving after
\* it does not start playback.
C26_NothingStartsWhileIdle ==
  [][(player.label = "Play" /\ last'.kind # "clickPlay") =>
       /\ playing' \subseteq playing
       /\ player'.index = -1]_vars

\* What does hold: while the Player is idle nothing but the answer to a
\* play request, or the completion of a sound such an answer started,
\* starts a handle or moves the index away from -1.
C26_NothingStartsWhileIdleButLateAnswers ==
  [][(player.label = "Play" /\ last'.kind \notin {"clickPlay", "play", "finish"})
       => /\ playing' \subseteq playing
          /\ player'.index \in {player.index, -1}
          /\ player'.label = "Play"]_vars

\* The answer to a play request has arrived after stop(): its sound plays
\* while the button reads Play.
C26_WitnessLateAnswerPlays ==
  /\ last.kind = "play" /\ last.x = "A"
  /\ player.label = "Play" /\ player.index = -1
  /\ player.sound = [id |-> 1, track |-> "A"] /\ player.sound \in playing
  /\ nlog = 0

\* The same after an edit of the tracks has stopped the Player.
C26_WitnessLateAnswerAfterEdit ==
  /\ last.kind = "play"
  /\ player.label = "Play" /\ player.index = -1
  /\ player.sound \in playing
  /\ nlog = 1 /\ nundo = 0

\* The step is a completion event, and playNextTrack moves the index by one
\* (past the last index it stops, which sets the index to -1).
CompletionAdvancesByOne ==
  last'.kind = "finish" =>
    IF player.index + 1 < Len(PlayerTracks(St))
    THEN player'.index = player.index + 1
    ELSE player'.index = -1 /\ player'.label = "Play"

\* C27: at most one handle is playing at any time: for every interleaving
\* of play(), stop(), stream responses and completion events, whenever a
\* handle is started every handle started earlier has completed or been
\* stopped, and one completion event advances the index by exactly one.
C27_AtMostOneHandlePlays ==
  [][/\ Cardinality(playing') <= 1
     /\ PlaybackStarts => playing' = {player'.sound}
     /\ CompletionAdvancesByOne]_vars

\* What does hold: a completion event advances the index by exactly one,
\* the handle that starts is the only one the Player refers to as current,
\* and stop() stops that one.
C27_OneCurrentHandle ==
  [][/\ CompletionAdvancesByOne
     /\ PlaybackStarts => player'.sound \in playing'
     /\ last'.kind \in {"clickStop", "stop"} =>
          /\ player.sound \notin playing'
          /\ playing' = playing \ {player.sound}]_vars

\* play(), stop(), play() were clicked before the first answer arrived:
\* both answers have started their handles, and both play.
C27_WitnessTwoHandles ==
  /\ last.kind = "play"
  /\ player.label = "Stop" /\ player.index = 0
  /\ playing = {[id |-> 1, track |-> "A"], [id |-> 2, track |-> "A"]}
  /\ player.sound \in playing

----------------------------------------------------------------------------
(* Undoing everything: the specification of the claim about the models     *)
(* after the History stack has been emptied                                *)

\* The models the page is loaded with: two playlists, the first with a
\* track that occurs twice.
InitialModel ==
  [playlists |-> <<1, 2>>,
   pl |-> [p \in PL |->
             [title |-> IF p = 1 THEN "Playlist 1" ELSE "Playlist 2",
              description |-> "",
              tracks |-> IF p = 1 THEN <<"t1", "t2", "t1">> ELSE <<"t2">>]]]

InitUndoAll ==
  /\ playlists = InitialModel.playlists
  /\ pl = InitialModel.pl
  /\ \E attached \in BOOLEAN :
       /\ slots = [p \in PL |-> IF attached /\ p = 1 THEN ViewSlots(ViewCb(2))
                                ELSE NoSlots]
       /\ setSlots = IF attached THEN SetSlotsInPlaylistView
                     ELSE [n \in SetSlotNames |-> NoCb]
       /\ mainView = IF attached
                     THEN [kind |-> "playlist", playlist |-> 1, id |-> 2]
                     ELSE NoView
       /\ nview = IF attached THEN 2 ELSE 0
  /\ InitRest

\* The mutators called with valid arguments (the tracks and playlists
\* present, the indices in range), and undo.
NextUndoAll ==
  \/ \E p \in PL, title \in Titles : CallSetTitle(p, title)
  \/ \E p \in PL, description \in Descriptions :
       CallSetDescription(p, description)
  \/ \E p \in PL, track \in Tracks : CallAddTrack(p, track)
  \/ \E p \in PL, track \in Tracks : CallDeleteTrack(p, track)
  \/ \E p \in PL, from \in 0..(MaxTracks - 1), to \in 0..(MaxTracks - 1) :
       CallMoveTrack(p, from, to)
  \/ \E p \in PL : CallAddPlaylist(p)
  \/ \E p \in PL : CallDeletePlaylist(p)
  \/ CallUndo

SpecUndoAll == InitUndoAll /\ [][NextUndoAll]_vars

\* The sequences hold the same elements, each as often as the other.
IsPermutation(a, b) ==
  /\ Len(a) = Len(b)
  /\ \A k \in 1..Len(a) :
       Cardinality({m \in 1..Len(a) : a[m] = a[k]})
       = Cardinality({m \in 1..Len(b) : b[m] = a[k]})

\* C28: after any sequence of mutator calls with valid arguments followed
\* by undo() until the stack is empty, every playlist's title and
\* description equal their initial values, every playlist's track sequence
\* is a permutation of its initial track sequence, and the playlist
\* sequence is a permutation of the initial one, with no playlist occurring
\* twice.
C28_UndoAllRestoresUpToOrder ==
  (Len(records) = 0 /\ last.kind = "undo") =>
    /\ \A p \in PL :
         /\ pl[p].title = InitialModel.pl[p].title
         /\ pl[p].description = InitialModel.pl[p].description
         /\ IsPermutation(pl[p].tracks, InitialModel.pl[p].tracks)
    /\ IsPermutation(playlists, InitialModel.playlists)
    /\ \A k \in 1..Len(playlists), m \in 1..Len(playlists) :
         playlists[k] = playlists[m] => k = m

\* Two calls were made and undone, and the stack is empty: the tracks of
\* playlist 1 are the initial ones in another order.
C28_Witness ==
  /\ Len(records) = 0 /\ last.kind = "undo"
  /\ nlog = 2 /\ nundo = 2
  /\ pl[1].tracks # InitialModel.pl[1].tracks
  /\ IsPermutation(pl[1].tracks, InitialModel.pl[1].tracks)

\* A playlist was deleted, its title was not changed, and all was undone:
\* the playlists are in another order.
C28_WitnessPlaylists ==
  /\ Len(records) = 0 /\ last.kind = "undo"
  /\ nlog = 2 /\ nundo = 2
  /\ playlists = <<2, 1>>

----------------------------------------------------------------------------
(* Claims about the descriptions of the records *)

\* The mutator kind that logged a record, read off the revert it captured.
LoggedBy(r) ==
  CASE r.revert.op = "setTitle" -> "setTitle"
    [] r.revert.op = "setDescription" -> "setDescription"
    [] r.revert.op = "deleteTrack" -> "addTrack"
    [] r.revert.op = "addTrack" -> "deleteTrack"
    [] r.revert.op = "moveTrack" -> "moveTrack"
    [] r.revert.op = "deletePlaylist" -> "addPlaylist"
    [] r.revert.op = "addPlaylist" -> "deletePlaylist"

\* C29: the description of a logged record identifies the kind of mutator
\* that logged it: records logged by two different kinds (in particular
\* setTitle and setDescription) carry different descriptions, so the
\* description the undo button shows after a title change differs from the
\* one it shows after a description change.
C29_DescriptionIdentifiesMutator ==
  /\ \A k \in 1..Len(records), m \in 1..Len(records) :
       LoggedBy(records[k]) # LoggedBy(records[m])
         => records[k].description # records[m].description
  /\ last.kind = "setTitle" => button.innerHTML # "Undo Set Description"

\* What does hold: the descriptions of records logged by two different
\* kinds differ unless the two kinds are setTitle and setDescription.
C29_DescriptionIdentifiesAllButTitle ==
  \A k \in 1..Len(records), m \in 1..Len(records) :
    (/\ LoggedBy(records[k]) # LoggedBy(records[m])
     /\ {LoggedBy(records[k]), LoggedBy(records[m])}
          # {"setTitle", "setDescription"})
      => records[k].description # records[m].description

\* A title change and a description change were logged with one and the
\* same description.
C29_WitnessSameDescription ==
  /\ Len(records) = 2
  /\ LoggedBy(records[1]) = "setTitle"
  /\ LoggedBy(records[2]) = "setDescription"
  /\ records[1].description = records[2].description

\* Records of two other kinds lie on the stack with different descriptions.
C29_WitnessOtherKinds ==
  /\ Len(records) = 2
  /\ LoggedBy(records[1]) = "addTrack"
  /\ LoggedBy(records[2]) = "moveTrack"
  /\ records[1].description = "Add Track"
  /\ records[2].description = "Move Track"

====
